---- MODULE Spec2Model ----
(***************************************************************************)
(* Model of remixapi.c: the exported boundary operations of the RTX Remix  *)
(* wrapper DLL (init, the forwarding operations, destroy) over the two     *)
(* process-wide globals g_remix (the function table) and g_remix_dll (the  *)
(* module handle).  The file holds two revisions of the boundary (lines    *)
(* 1-83 and 85-161); `revision` selects the one that is built.             *)
(***************************************************************************)
EXTENDS Integers, FiniteSets, Sequences, TLC

\* ---------------------------------------------------------------- bounds
MaxCode == 2
MaxHolds == 2
NumContexts == 2

\* ------------------------------------------------------------- constants
REMIXAPI_ERROR_CODE_SUCCESS == 0
ErrorCodes == 0..MaxCode
NULL == "NULL"
PrimaryPath == "d3d9.dll"
SecondaryPath == "bin\\d3d9.dll"
Paths == {PrimaryPath, SecondaryPath}
Revisions == {1, 2}
Kinds == {"mesh", "light", "material"}
\* A resource handle is opaque to this layer: all that is told apart is the
\* value a caller's handle variable has before any create wrote it and a
\* value that a successful create returned.
Unset == "unset"
Returned_by_create == "returned"
Handles == {Unset, Returned_by_create}
Contexts == 1..NumContexts
Entries == {"Startup", "Shutdown", "SetupCamera", "Present",
            "CreateMesh", "DestroyMesh", "CreateLight", "DestroyLight",
            "CreateMaterial", "DestroyMaterial", "DrawInstance",
            "DrawLightInstance"}

VARIABLES revision, g_remix, g_remix_dll, holds, started, minted,
          handleSlot, halted, last, prev,
          serialized, lock, pc, reg, staleCall

seqVars == <<revision, g_remix, g_remix_dll, holds, started, minted,
             handleSlot, halted, last, prev>>
concVars == <<serialized, lock, pc, reg, staleCall>>
vars == <<revision, g_remix, g_remix_dll, holds, started, minted,
          handleSlot, halted, last, prev,
          serialized, lock, pc, reg, staleCall>>

\* ------------------------------------------------------------ the globals
\* remixapi_Interface g_remix = { 0 }: every entry is a null pointer.
Zeroed == [e \in Entries |-> NULL]
\* A table whose entries all point into the module loaded from path m.
Populated(m) == [e \in Entries |-> m]

TotalHolds(h) == h[PrimaryPath] + h[SecondaryPath]

\* Lifecycle state of section 4.3, read off the two globals and the
\* renderer's started flag.
Lifecycle(table, dll, st) ==
    IF table["Shutdown"] = NULL
      THEN IF dll = NULL THEN "Unloaded" ELSE "Stopped"
      ELSE IF table["Startup"] \in st THEN "Started" ELSE "Loaded"

\* ------------------------------------------------- which revision has what
Exported(rev, op) ==
    \/ rev = 1
    \/ op \notin {"destroy_mesh", "destroy_light", "create_material",
                  "destroy_material"}

ReturnsCode(rev, op) ==
    IF rev = 1 THEN op # "present"
               ELSE op \in {"init", "create_mesh", "create_light"}

\* --------------------------------------------------------- call records
NoCall == [op |-> "none", pre |-> "Unloaded", retKind |-> "none", ret |-> 0,
           primary |-> FALSE, secondary |-> FALSE, path |-> NULL,
           diag |-> FALSE, helperCalls |-> 0, loadStatus |-> 0,
           loadCalls |-> 0, tableWrites |-> 0, dllWrites |-> 0,
           startupCalls |-> 0, entry |-> "none", entryCalls |-> 0,
           code |-> 0, viaNull |-> FALSE, shutdownCalls |-> 0,
           unloadCalls |-> 0, handle |-> Unset, wasMinted |-> FALSE,
           slotWritten |-> FALSE]

\* What is remembered of the call before the last one.
Summary(rec) ==
    [op |-> IF rec.op \in {"none", "init", "destroy"} THEN rec.op ELSE "forward",
     shutdownCalls |-> rec.shutdownCalls]

\* ------------------------------------------------------- Library Locator
\* init, lines 13-19: probe d3d9.dll, then bin\d3d9.dll.
LocateLibrary_resetsToPrimary(p, s) ==
    [path |-> IF p THEN PrimaryPath ELSE IF s THEN SecondaryPath ELSE PrimaryPath,
     diag |-> (~p /\ ~s)]

LocateLibrary(p, s) ==
    [path |-> IF ~p THEN SecondaryPath ELSE PrimaryPath,
     diag |-> (~p /\ ~s)]

FileExists(path, p, s) ==
    \/ path = PrimaryPath /\ p
    \/ path = SecondaryPath /\ s

\* ------------------------------------------------------- Dynamic Binder
\* remixapi_lib_loadRemixDllAndInitialize(path, &g_remix, &g_remix_dll):
\* on success the library is held once more and both outputs are written;
\* on failure nothing is held and the outputs are left alone.
remixapi_lib_loadRemixDllAndInitialize(path, status, table, dll, h) ==
    IF status = REMIXAPI_ERROR_CODE_SUCCESS
      THEN [table |-> Populated(path), dll |-> path,
            holds |-> [h EXCEPT ![path] = @ + 1],
            loadCalls |-> 1, writes |-> 1]
      ELSE [table |-> table, dll |-> dll, holds |-> h,
            loadCalls |-> 0, writes |-> 0]

\* FreeLibrary(dll): drops one hold of the module, if it has one.
FreeLibrary(dll, h) ==
    IF dll # NULL /\ h[dll] > 0 THEN [h EXCEPT ![dll] = @ - 1] ELSE h

\* Modules that are still mapped.
Mapped(h) == {m \in Paths : h[m] > 0}

\* remixapi_lib_shutdownAndUnloadRemixDll(&g_remix, g_remix_dll): invoke
\* Shutdown, then release the library, then zero the table.  A zeroed
\* Shutdown entry makes the first step a call through a null pointer.
remixapi_lib_shutdownAndUnloadRemixDll(table, dll, h, st, sd) ==
    IF table["Shutdown"] = NULL
      THEN [table |-> table, holds |-> h, started |-> st, viaNull |-> TRUE,
            shutdownCalls |-> 0, unloadCalls |-> 0, status |-> sd]
      ELSE LET h2 == FreeLibrary(dll, h)
           IN [table |-> Zeroed, holds |-> h2,
               started |-> (st \ {table["Shutdown"]}) \cap Mapped(h2),
               viaNull |-> FALSE, shutdownCalls |-> 1,
               unloadCalls |-> TotalHolds(h) - TotalHolds(h2),
               status |-> sd]

\* ------------------------------------------------------------------ init
\* init, line 23: the load status check.
init_load_failed_never(status) == FALSE

init_load_failed(status) == status # REMIXAPI_ERROR_CODE_SUCCESS

\* init(startupInfo).  p, s: whether d3d9.dll and bin\d3d9.dll exist;
\* st: the status the load helper returns.  The code r that Startup returns
\* is drawn where Startup is called.
init(p, s, st) ==
    /\ ~halted
    /\ TotalHolds(holds) < MaxHolds
    /\ LET loc == LocateLibrary(p, s)
           ld == remixapi_lib_loadRemixDllAndInitialize(
                     loc.path, st, g_remix, g_remix_dll, holds)
           rec == [NoCall EXCEPT !.op = "init",
                       !.pre = Lifecycle(g_remix, g_remix_dll, started),
                       !.primary = p, !.secondary = s,
                       !.path = loc.path, !.diag = loc.diag,
                       !.helperCalls = 1, !.loadStatus = st,
                       !.loadCalls = ld.loadCalls,
                       !.tableWrites = ld.writes, !.dllWrites = ld.writes]
       IN /\ (~FileExists(loc.path, p, s) => st # REMIXAPI_ERROR_CODE_SUCCESS)
          /\ g_remix' = ld.table
          /\ g_remix_dll' = ld.dll
          /\ holds' = ld.holds
          /\ IF init_load_failed(st)
               THEN /\ started' = started
                    /\ halted' = FALSE
                    /\ last' = [rec EXCEPT !.retKind = "code", !.ret = st]
               ELSE IF ld.table["Startup"] = NULL
                 THEN /\ started' = started
                      /\ \E t \in BOOLEAN : halted' = t
                      /\ last' = [rec EXCEPT !.retKind = "fault",
                                      !.entry = "Startup", !.viaNull = TRUE]
                 ELSE \E r \in ErrorCodes :
                      /\ started' = IF r = REMIXAPI_ERROR_CODE_SUCCESS
                                      THEN started \cup {ld.table["Startup"]}
                                      ELSE started
                      /\ halted' = FALSE
                      /\ last' = [rec EXCEPT !.retKind = "code",
                                      !.ret = IF r # REMIXAPI_ERROR_CODE_SUCCESS
                                                THEN r
                                                ELSE REMIXAPI_ERROR_CODE_SUCCESS,
                                      !.entry = "Startup", !.entryCalls = 1,
                                      !.startupCalls = 1, !.code = r]
    /\ UNCHANGED <<revision, minted, handleSlot>>
    /\ prev' = Summary(last)
    /\ UNCHANGED concVars

\* --------------------------------------------------------------- destroy
\* destroy, line 80: if (g_remix.Shutdown).
destroy_guard_dll(table, dll) == dll # NULL

destroy_guard_none(table, dll) == TRUE

destroy_guard(table, dll) == table["Shutdown"] # NULL

\* destroy().  sd: what Shutdown returns, or, when revision 1 falls off the
\* end without a return, the value the return register happens to hold.
destroy(sd) ==
    /\ ~halted
    /\ (revision = 2 /\ ~destroy_guard(g_remix, g_remix_dll)
          => sd = REMIXAPI_ERROR_CODE_SUCCESS)
    /\ LET rec == [NoCall EXCEPT !.op = "destroy",
                       !.pre = Lifecycle(g_remix, g_remix_dll, started)]
       IN IF destroy_guard(g_remix, g_remix_dll)
            THEN LET un == remixapi_lib_shutdownAndUnloadRemixDll(
                               g_remix, g_remix_dll, holds, started, sd)
                 IN /\ g_remix' = un.table
                    /\ holds' = un.holds
                    /\ started' = un.started
                    /\ IF un.viaNull
                         THEN /\ \E t \in BOOLEAN : halted' = t
                              /\ last' = [rec EXCEPT !.retKind = "fault",
                                              !.helperCalls = 1,
                                              !.entry = "Shutdown",
                                              !.viaNull = TRUE]
                         ELSE /\ halted' = FALSE
                              /\ last' = [rec EXCEPT
                                   !.retKind = IF revision = 1 THEN "code"
                                                               ELSE "void",
                                   !.ret = IF revision = 1 THEN un.status ELSE 0,
                                   !.helperCalls = 1,
                                   !.entry = "Shutdown", !.entryCalls = 1,
                                   !.code = sd,
                                   !.shutdownCalls = un.shutdownCalls,
                                   !.unloadCalls = un.unloadCalls,
                                   !.tableWrites = 1]
            ELSE /\ UNCHANGED <<g_remix, holds, started>>
                 /\ halted' = FALSE
                 /\ last' = [rec EXCEPT
                                 !.retKind = IF revision = 1 THEN "undefined"
                                                             ELSE "void",
                                 !.ret = IF revision = 1 THEN sd ELSE 0]
    /\ UNCHANGED <<revision, g_remix_dll, minted, handleSlot>>
    /\ prev' = Summary(last)
    /\ UNCHANGED concVars

\* ------------------------------------------------- forwarding operations
\* The value a forwarding operation hands back for the renderer's code r.
Returned(rev, op, r) ==
    IF ReturnsCode(rev, op)
      THEN [retKind |-> "code",
            ret |-> IF op \in {"create_mesh", "create_light"} /\ rev = 2
                      THEN IF r # REMIXAPI_ERROR_CODE_SUCCESS
                             THEN r ELSE REMIXAPI_ERROR_CODE_SUCCESS
                      ELSE r]
      ELSE [retKind |-> "void", ret |-> 0]

\* One call g_remix.<e>(...) made by operation op; h is the handle argument
\* (Unset where the operation has none), r the code the renderer returns.
CallRecord(op, e, r, h) ==
    LET rec == [NoCall EXCEPT !.op = op,
                    !.pre = Lifecycle(g_remix, g_remix_dll, started),
                    !.entry = e, !.handle = h]
    IN IF g_remix[e] = NULL
         THEN [rec EXCEPT !.retKind = "fault", !.viaNull = TRUE]
         ELSE [rec EXCEPT !.retKind = Returned(revision, op, r).retKind,
                          !.ret = Returned(revision, op, r).ret,
                          !.entryCalls = 1, !.code = r]

\* setup_camera, present, draw_instance, draw_light_instance.
Forward(op, e, h) ==
    /\ ~halted
    /\ Exported(revision, op)
    /\ IF g_remix[e] = NULL
         THEN /\ \E t \in BOOLEAN : halted' = t
              /\ last' = CallRecord(op, e, REMIXAPI_ERROR_CODE_SUCCESS, h)
         ELSE /\ halted' = FALSE
              /\ \E r \in ErrorCodes : last' = CallRecord(op, e, r, h)
    /\ UNCHANGED <<revision, g_remix, g_remix_dll, holds, started, minted,
                   handleSlot>>
    /\ prev' = Summary(last)
    /\ UNCHANGED concVars

\* create_<kind>(info, &handle): the renderer writes the out-handle only
\* when it reports success.
Create(op, e, k) ==
    /\ ~halted
    /\ Exported(revision, op)
    /\ IF g_remix[e] = NULL
         THEN /\ \E t \in BOOLEAN : halted' = t
              /\ last' = CallRecord(op, e, REMIXAPI_ERROR_CODE_SUCCESS,
                                    handleSlot[k])
              /\ UNCHANGED <<minted, handleSlot>>
         ELSE \E r \in ErrorCodes :
              /\ halted' = FALSE
              /\ IF r = REMIXAPI_ERROR_CODE_SUCCESS
                   THEN /\ minted' = [minted EXCEPT ![k] = TRUE]
                        /\ handleSlot' = [handleSlot EXCEPT
                                             ![k] = Returned_by_create]
                        /\ last' = [CallRecord(op, e, r, Returned_by_create)
                                      EXCEPT !.slotWritten = TRUE]
                   ELSE /\ UNCHANGED <<minted, handleSlot>>
                        /\ last' = CallRecord(op, e, r, handleSlot[k])
    /\ UNCHANGED <<revision, g_remix, g_remix_dll, holds, started>>
    /\ prev' = Summary(last)
    /\ UNCHANGED concVars

\* destroy_<kind>(handle): forwards whatever handle the caller passes.
Destroy(op, e, k, h) ==
    /\ ~halted
    /\ Exported(revision, op)
    /\ IF g_remix[e] = NULL
         THEN /\ \E t \in BOOLEAN : halted' = t
              /\ last' = [CallRecord(op, e, REMIXAPI_ERROR_CODE_SUCCESS, h)
                            EXCEPT !.wasMinted = (h = Returned_by_create /\ minted[k])]
         ELSE /\ halted' = FALSE
              /\ \E r \in ErrorCodes :
                     last' = [CallRecord(op, e, r, h)
                                EXCEPT !.wasMinted = (h = Returned_by_create /\ minted[k])]
    /\ UNCHANGED <<revision, g_remix, g_remix_dll, holds, started, minted,
                   handleSlot>>
    /\ prev' = Summary(last)
    /\ UNCHANGED concVars

setup_camera == Forward("setup_camera", "SetupCamera", Unset)
present == Forward("present", "Present", Unset)
create_mesh == Create("create_mesh", "CreateMesh", "mesh")
destroy_mesh == \E h \in Handles : Destroy("destroy_mesh", "DestroyMesh", "mesh", h)
create_light == Create("create_light", "CreateLight", "light")
destroy_light ==
    \E h \in Handles : Destroy("destroy_light", "DestroyLight", "light", h)
create_material == Create("create_material", "CreateMaterial", "material")
destroy_material ==
    \E h \in Handles :
        Destroy("destroy_material", "DestroyMaterial", "material", h)
draw_instance == Forward("draw_instance", "DrawInstance", Unset)
draw_light_instance ==
    \E h \in Handles : Forward("draw_light_instance", "DrawLightInstance", h)

Init ==
    /\ revision \in Revisions
    /\ g_remix = Zeroed
    /\ g_remix_dll = NULL
    /\ holds = [m \in Paths |-> 0]
    /\ started = {}
    /\ minted = [k \in Kinds |-> FALSE]
    /\ handleSlot = [k \in Kinds |-> Unset]
    /\ halted = FALSE
    /\ last = NoCall
    /\ prev = Summary(NoCall)
    /\ serialized = FALSE
    /\ lock = 0
    /\ pc = [c \in Contexts |-> "idle"]
    /\ reg = [c \in Contexts |-> NULL]
    /\ staleCall = "none"

Next ==
    \/ \E p \in BOOLEAN, s \in BOOLEAN, st \in ErrorCodes : init(p, s, st)
    \/ \E sd \in ErrorCodes : destroy(sd)
    \/ setup_camera
    \/ present
    \/ create_mesh
    \/ destroy_mesh
    \/ create_light
    \/ destroy_light
    \/ create_material
    \/ destroy_material
    \/ draw_instance
    \/ draw_light_instance

Spec == Init /\ [][Next]_vars

\* ======================================================== claims
Live == Lifecycle(g_remix, g_remix_dll, started)
ForwardOps == {"setup_camera", "present", "create_mesh", "destroy_mesh",
               "create_light", "destroy_light", "create_material",
               "destroy_material", "draw_instance", "draw_light_instance"}
CreateOps == {"create_mesh", "create_light", "create_material"}
DestroyOps == {"destroy_mesh", "destroy_light", "destroy_material"}

C2_RetryReusesBinding ==
    /\ (/\ last.op = "init" /\ last.pre = "Unloaded"
        /\ last.startupCalls = 1
        /\ last.code # REMIXAPI_ERROR_CODE_SUCCESS)
         => /\ last.retKind = "code" /\ last.ret = last.code
            /\ Live = "Loaded"
    /\ (/\ last.op = "init" /\ last.pre = "Loaded"
        /\ last.startupCalls = 1
        /\ last.code = REMIXAPI_ERROR_CODE_SUCCESS)
         => /\ last.retKind = "code"
            /\ last.ret = REMIXAPI_ERROR_CODE_SUCCESS
            /\ Live = "Started"
            /\ last.loadCalls = 0
            /\ last.tableWrites = 0

\* C3: when the load helper returns a failure status, init() returns that
\* status and does not invoke Startup; issued in Unloaded it leaves the
\* lifecycle Unloaded with no library held and no Shutdown entry bound, and
\* a destroy() issued in Unloaded makes no Shutdown call and no unload.
C3_LoadFailure ==
    /\ (last.op = "init" /\ last.loadStatus # REMIXAPI_ERROR_CODE_SUCCESS)
         => /\ last.retKind = "code" /\ last.ret = last.loadStatus
            /\ last.startupCalls = 0 /\ last.entryCalls = 0
            /\ ~last.viaNull
            /\ last.loadCalls = 0
            /\ last.pre = "Unloaded" =>
                 /\ Live = "Unloaded"
                 /\ g_remix_dll = NULL
                 /\ g_remix["Shutdown"] = NULL
                 /\ TotalHolds(holds) = 0
    /\ (last.op = "destroy" /\ last.pre = "Unloaded")
         => /\ last.helperCalls = 0
            /\ last.shutdownCalls = 0 /\ last.unloadCalls = 0
            /\ ~last.viaNull
            /\ Live = "Unloaded"

C3_Witness ==
    /\ prev.op = "init"
    /\ last.op = "destroy" /\ last.pre = "Unloaded"
    /\ last.shutdownCalls = 0 /\ last.unloadCalls = 0

\* C4: a destroy() issued in Started invokes Shutdown once, unloads the
\* library once and zeroes the table; a destroy() that directly follows a
\* destroy() finds the Shutdown entry zeroed and makes neither a Shutdown
\* call nor an unload.
C4_DoubleTeardown ==
    /\ (last.op = "destroy" /\ last.pre = "Started")
         => /\ last.shutdownCalls = 1 /\ last.unloadCalls = 1
            /\ g_remix = Zeroed
    /\ (last.op = "destroy" /\ prev.op = "destroy")
         => /\ last.pre \in {"Unloaded", "Stopped"}
            /\ last.helperCalls = 0
            /\ last.shutdownCalls = 0 /\ last.unloadCalls = 0
            /\ ~last.viaNull
            /\ g_remix = Zeroed

C4_Witness ==
    /\ prev.op = "destroy" /\ prev.shutdownCalls = 1
    /\ last.op = "destroy" /\ last.pre = "Stopped"
    /\ last.shutdownCalls = 0 /\ last.unloadCalls = 0

\* C5: a resource or frame operation issued while the table is zeroed
\* (before any init() or after destroy()) is rejected with an error code
\* and never calls through a zeroed table entry.
C5_RejectedWhenZeroed ==
    (last.op \in ForwardOps /\ last.pre \in {"Unloaded", "Stopped"})
      => /\ ~last.viaNull
         /\ last.entryCalls = 0
         /\ last.retKind = "code"
         /\ last.ret # REMIXAPI_ERROR_CODE_SUCCESS

\* C6: a create that returns a failure code leaves the out-handle
\* unmodified, and the renderer's Destroy<kind> entry is invoked only for a
\* handle that an earlier successful Create<kind> returned.
C6_DestroyOnlyMinted ==
    /\ (/\ last.op \in CreateOps /\ last.retKind = "code"
        /\ last.ret # REMIXAPI_ERROR_CODE_SUCCESS) => ~last.slotWritten
    /\ (last.op \in DestroyOps /\ last.entryCalls = 1) => last.wasMinted

\* C7: whenever a sequence of init()/destroy() calls has just ended with
\* destroy(), no library reference is held (every load has been matched by
\* an unload); an unload happens only in a call that has invoked Shutdown;
\* and one init() takes at most one hold.
C7_HoldsPaired ==
    /\ last.op = "destroy" => TotalHolds(holds) = 0
    /\ last.unloadCalls <= last.shutdownCalls
    /\ last.op = "init" => last.loadCalls <= 1

\* C8: in Started every operation that has a result code invokes its table
\* entry exactly once and returns exactly the code the entry returned, and
\* destroy() returns a defined result on every path.
C8_PassThrough ==
    /\ (/\ last.op \in ForwardOps \cup {"init"}
        /\ ReturnsCode(revision, last.op)
        /\ last.entryCalls = 1)
         => /\ last.retKind = "code" /\ last.ret = last.code
    /\ (last.op \in ForwardOps /\ last.pre = "Started") => last.entryCalls = 1
    /\ last.op = "destroy" => last.retKind \in {"code", "void"}

\* C9: an init() issued while the lifecycle is Loaded or Started writes
\* neither the function table nor the stored library handle, and no
\* resource or frame operation writes either global.
C9_SingleBinding ==
    /\ (last.op = "init" /\ last.pre \in {"Loaded", "Started"})
         => /\ last.tableWrites = 0 /\ last.dllWrites = 0
    /\ last.op \in ForwardOps
         => /\ last.tableWrites = 0 /\ last.dllWrites = 0

\* ============================================ two contexts, step by step
\* Every exported operation is plain C over the two globals, so another
\* context can run between any two of its accesses.  A caller that
\* serializes its calls holds one lock of its own around each whole call.
Acquire(c) ==
    IF serialized THEN lock = 0 /\ lock' = c ELSE lock' = lock

Release(c) ==
    IF serialized THEN lock' = 0 ELSE lock' = lock

\* A code pointer that is null or points into a module no longer mapped.
Stale(ptr, h) == ptr = NULL \/ h[ptr] = 0

c_call_init(c) ==
    /\ pc[c] = "idle"
    /\ TotalHolds(holds) < MaxHolds
    /\ Acquire(c)
    /\ pc' = [pc EXCEPT ![c] = "init_load"]
    /\ UNCHANGED <<reg, staleCall, serialized>>
    /\ UNCHANGED seqVars

\* init, lines 13-27.
c_init_load(c, p, s, st) ==
    /\ pc[c] = "init_load"
    /\ TotalHolds(holds) < MaxHolds
    /\ LET loc == LocateLibrary(p, s)
           ld == remixapi_lib_loadRemixDllAndInitialize(
                     loc.path, st, g_remix, g_remix_dll, holds)
       IN /\ (~FileExists(loc.path, p, s) => st # REMIXAPI_ERROR_CODE_SUCCESS)
          /\ g_remix' = ld.table
          /\ g_remix_dll' = ld.dll
          /\ holds' = ld.holds
          /\ IF init_load_failed(st)
               THEN /\ pc' = [pc EXCEPT ![c] = "idle"]
                    /\ Release(c)
               ELSE /\ pc' = [pc EXCEPT ![c] = "init_startup"]
                    /\ lock' = lock
    /\ UNCHANGED <<reg, staleCall, serialized>>
    /\ UNCHANGED <<revision, started, minted, handleSlot, halted, last, prev>>

\* init, lines 30-36: r = g_remix.Startup(startupInfo).
c_init_startup(c, r) ==
    /\ pc[c] = "init_startup"
    /\ IF Stale(g_remix["Startup"], holds)
         THEN /\ staleCall' = "init"
              /\ started' = started
         ELSE /\ staleCall' = staleCall
              /\ started' = IF r = REMIXAPI_ERROR_CODE_SUCCESS
                              THEN started \cup {g_remix["Startup"]}
                              ELSE started
    /\ pc' = [pc EXCEPT ![c] = "idle"]
    /\ Release(c)
    /\ UNCHANGED <<reg, serialized>>
    /\ UNCHANGED <<revision, g_remix, g_remix_dll, holds, minted, handleSlot,
                   halted, last, prev>>

\* The caller issues a resource or frame operation only while Started.
c_call_forward(c) ==
    /\ pc[c] = "idle"
    /\ Lifecycle(g_remix, g_remix_dll, started) = "Started"
    /\ Acquire(c)
    /\ pc' = [pc EXCEPT ![c] = "fwd_read"]
    /\ UNCHANGED <<reg, staleCall, serialized>>
    /\ UNCHANGED seqVars

\* A forwarding operation (lines 39-77) loads its table entry ...
c_fwd_read(c, e) ==
    /\ pc[c] = "fwd_read"
    /\ reg' = [reg EXCEPT ![c] = g_remix[e]]
    /\ pc' = [pc EXCEPT ![c] = "fwd_call"]
    /\ UNCHANGED <<lock, staleCall, serialized>>
    /\ UNCHANGED seqVars

\* ... and calls through it.
c_fwd_call(c) ==
    /\ pc[c] = "fwd_call"
    /\ staleCall' = IF Stale(reg[c], holds) THEN "forward" ELSE staleCall
    /\ reg' = [reg EXCEPT ![c] = NULL]
    /\ pc' = [pc EXCEPT ![c] = "idle"]
    /\ Release(c)
    /\ UNCHANGED serialized
    /\ UNCHANGED seqVars

c_call_destroy(c) ==
    /\ pc[c] = "idle"
    /\ Acquire(c)
    /\ pc' = [pc EXCEPT ![c] = "destroy_check"]
    /\ UNCHANGED <<reg, staleCall, serialized>>
    /\ UNCHANGED seqVars

\* destroy, lines 80-81: the guard, and g_remix_dll passed by value.
c_destroy_check(c) ==
    /\ pc[c] = "destroy_check"
    /\ IF destroy_guard(g_remix, g_remix_dll)
         THEN /\ reg' = [reg EXCEPT ![c] = g_remix_dll]
              /\ pc' = [pc EXCEPT ![c] = "destroy_shutdown"]
              /\ lock' = lock
         ELSE /\ reg' = reg
              /\ pc' = [pc EXCEPT ![c] = "idle"]
              /\ Release(c)
    /\ UNCHANGED <<staleCall, serialized>>
    /\ UNCHANGED seqVars

\* The unload helper, first step: g_remix.Shutdown().
c_destroy_shutdown(c) ==
    /\ pc[c] = "destroy_shutdown"
    /\ IF Stale(g_remix["Shutdown"], holds)
         THEN /\ staleCall' = "destroy"
              /\ started' = started
              /\ reg' = [reg EXCEPT ![c] = NULL]
              /\ pc' = [pc EXCEPT ![c] = "idle"]
              /\ Release(c)
         ELSE /\ staleCall' = staleCall
              /\ started' = started \ {g_remix["Shutdown"]}
              /\ reg' = reg
              /\ pc' = [pc EXCEPT ![c] = "destroy_free"]
              /\ lock' = lock
    /\ UNCHANGED serialized
    /\ UNCHANGED <<revision, g_remix, g_remix_dll, holds, minted, handleSlot,
                   halted, last, prev>>

\* The unload helper, second step: FreeLibrary(remixDll).
c_destroy_free(c) ==
    /\ pc[c] = "destroy_free"
    /\ holds' = FreeLibrary(reg[c], holds)
    /\ started' = started \cap Mapped(FreeLibrary(reg[c], holds))
    /\ reg' = [reg EXCEPT ![c] = NULL]
    /\ pc' = [pc EXCEPT ![c] = "destroy_zero"]
    /\ UNCHANGED <<lock, staleCall, serialized>>
    /\ UNCHANGED <<revision, g_remix, g_remix_dll, minted, handleSlot,
                   halted, last, prev>>

\* The unload helper, last step: the table is zeroed.
c_destroy_zero(c) ==
    /\ pc[c] = "destroy_zero"
    /\ g_remix' = Zeroed
    /\ pc' = [pc EXCEPT ![c] = "idle"]
    /\ Release(c)
    /\ UNCHANGED <<reg, staleCall, serialized>>
    /\ UNCHANGED <<revision, g_remix_dll, holds, started, minted, handleSlot,
                   halted, last, prev>>

InitConc ==
    /\ revision \in Revisions
    /\ g_remix = Zeroed
    /\ g_remix_dll = NULL
    /\ holds = [m \in Paths |-> 0]
    /\ started = {}
    /\ minted = [k \in Kinds |-> FALSE]
    /\ handleSlot = [k \in Kinds |-> Unset]
    /\ halted = FALSE
    /\ last = NoCall
    /\ prev = Summary(NoCall)
    /\ serialized \in BOOLEAN
    /\ lock = 0
    /\ pc = [c \in Contexts |-> "idle"]
    /\ reg = [c \in Contexts |-> NULL]
    /\ staleCall = "none"

NextConc ==
    \E c \in Contexts :
        \/ c_call_init(c)
        \/ \E p \in BOOLEAN, s \in BOOLEAN, st \in ErrorCodes :
               c_init_load(c, p, s, st)
        \/ \E r \in ErrorCodes : c_init_startup(c, r)
        \/ c_call_forward(c)
        \/ \E e \in Entries \ {"Startup", "Shutdown"} : c_fwd_read(c, e)
        \/ c_fwd_call(c)
        \/ c_call_destroy(c)
        \/ c_destroy_check(c)
        \/ c_destroy_shutdown(c)
        \/ c_destroy_free(c)
        \/ c_destroy_zero(c)

SpecConc == InitConc /\ [][NextConc]_vars

\* C10: when the caller serializes all calls with one lock and issues
\* resource and frame operations only while Started, no context ever calls
\* through a table entry that is zeroed or points into an unloaded library
\* (without the lock such a call is reachable: C10_Witness).
C10_SerializedSafe == serialized => staleCall = "none"

C10_Witness ==
    /\ ~serialized
    /\ staleCall = "forward"
    /\ g_remix = Zeroed
    /\ \E c \in Contexts : pc[c] = "idle"

====
